---------------------------- MODULE Spec2Model ----------------------------
(***************************************************************************)
(* A model of the Syzygy table decoder of shakmaty-syzygy (src/src/lib.rs, *)
(* src/src/errors.rs, src/src/types.rs).                                   *)
(*                                                                         *)
(* Results of fallible code are records with tag "Ok" (and val), "Err" (a   *)
(* returned CorruptedTable) or "Panic" (the thread aborts: a failed        *)
(* assert!/expect/unreachable!/panic!, an out-of-bounds index, an          *)
(* arithmetic overflow under overflow checks); oob tells whether a read    *)
(* outside the byte range caused the failure.                              *)
(* Byte ranges are sequences of 0..255; offset o of the source is element  *)
(* o + 1 of the sequence.                                                  *)
(***************************************************************************)
EXTENDS Integers, Sequences, FiniteSets, TLC

VARIABLES
    pc,          \* which operation has run
    table,       \* Spec: the opened Table (key, num_unique_pieces, sides)
    pos,         \* Spec: the probed position (board, turn, castling rights)
    probe,       \* Spec: what probe_wdl_table computed (stm, squares, idx, byte, result)
    io_error,    \* SpecIo: the io::Error being converted
    probe_error, \* SpecIo: the ProbeError it converts to
    overflow_checks, \* whether the build panics on arithmetic overflow (debug) or wraps (release)
    input,       \* the byte range handed to the parser
    for_side,    \* SpecGroup: the side GroupData::parse is called for
    group_data,  \* SpecGroup: the result of GroupData::parse
    pairs_data,  \* SpecPairs: the result of PairsData::new
    search,      \* SpecPairs: a 64-bit buffer and the result of the length search on it
    opened,      \* SpecTable: the result of Table::new
    dec          \* SpecTable: the side, index and result of decompress_pairs

vars == <<pc, table, pos, probe, io_error, probe_error, overflow_checks,
          input, for_side, group_data, pairs_data, search, opened, dec>>

----------------------------------------------------------------------------
(* Bounds of the model. *)

\* Number of board squares the pieces after the first one are drawn from.
NumOtherSquares == 4

\* io::Error payloads (raw OS error codes) tried per kind.
MaxOsCode == 9

----------------------------------------------------------------------------
(* Results. *)

Ok(v) == [tag |-> "Ok", oob |-> FALSE, val |-> v]
Err == [tag |-> "Err", oob |-> FALSE]
Panic == [tag |-> "Panic", oob |-> FALSE]

\* The same two outcomes when their cause is a read outside the byte range.
ErrOob == [tag |-> "Err", oob |-> TRUE]
PanicOob == [tag |-> "Panic", oob |-> TRUE]

\* The failure x, passed on by the caller (the ? operator, or the unwinding).
Fail(x) == [tag |-> x.tag, oob |-> x.oob]
FirstFail(a, b) == IF a.tag # "Ok" THEN Fail(a) ELSE Fail(b)

Min(S) == CHOOSE x \in S : \A y \in S : x <= y

Range(s) == {s[i] : i \in 1..Len(s)}

\* Sequence s without its first n elements (Iterator::skip).
Skip(s, n) == IF n >= Len(s) THEN <<>> ELSE SubSeq(s, n + 1, Len(s))

RECURSIVE SumSeq(_)
SumSeq(s) == IF s = <<>> THEN 0 ELSE s[1] + SumSeq(Tail(s))

\* num_integer::binomial(n, k)
RECURSIVE binomial(_, _)
binomial(n, k) ==
    IF k > n THEN 0
    ELSE IF k = 0 THEN 1
    ELSE (binomial(n - 1, k - 1) * n) \div k

----------------------------------------------------------------------------
(* Square geometry (shakmaty::Square). *)

Squares == 0..63
file(sq) == sq % 8
rank(sq) == sq \div 8
mirror_horizontal(sq) == rank(sq) * 8 + (7 - file(sq))
mirror_vertical(sq) == (7 - rank(sq)) * 8 + file(sq)
mirror_diagonal(sq) == file(sq) * 8 + rank(sq)

\* Checks if a square is on the a1-h8 diagonal.
offdiag(sq) == file(sq) # rank(sq)

MAX_PIECES == 6

TRIANGLE ==
    << 6, 0, 1, 2, 2, 1, 0, 6,
       0, 7, 3, 4, 4, 3, 7, 0,
       1, 3, 8, 5, 5, 8, 3, 1,
       2, 4, 5, 9, 9, 5, 4, 2,
       2, 4, 5, 9, 9, 5, 4, 2,
       1, 3, 8, 5, 5, 8, 3, 1,
       0, 7, 3, 4, 4, 3, 7, 0,
       6, 0, 1, 2, 2, 1, 0, 6 >>

----------------------------------------------------------------------------
(* Pieces and material. *)

Roles == <<"pawn", "knight", "bishop", "rook", "queen", "king">>

Piece(c, r) == [color |-> c, role |-> r]

OtherColor(c) == IF c = "white" THEN "black" ELSE "white"

\* Color::fold: the first argument for white, the second for black.
fold(color, w, b) == IF color = "white" THEN w ELSE b

byte_to_piece(p) ==
    LET color == IF (p \div 8) % 2 = 0 THEN "white" ELSE "black"
        r == p - 8 * ((p \div 8) % 2)
    IN  IF r \in 1..6 THEN Ok(Piece(color, Roles[r])) ELSE Err

\* Material: the number of pieces of every kind (a multiset of pieces).
Count(pieces, p) == Cardinality({i \in 1..Len(pieces) : pieces[i] = p})

MaterialFromIter(pieces) == [p \in Range(pieces) |-> Count(pieces, p)]

MaterialSide(m, c) == {p \in DOMAIN m : p.color = c}

MaterialHasPawns(m) == \E p \in DOMAIN m : p.role = "pawn"

SideHasPawns(m, c) == \E p \in MaterialSide(m, c) : p.role = "pawn"

MaterialIsSymmetric(m) ==
    \A r \in Range(Roles) :
        LET w == Piece("white", r)
            b == Piece("black", r)
        IN  (IF w \in DOMAIN m THEN m[w] ELSE 0) = (IF b \in DOMAIN m THEN m[b] ELSE 0)

MaterialUniquePieces(m) == Cardinality({p \in DOMAIN m : m[p] = 1})

MaterialMinLikeMan(m) ==
    LET like == {m[p] : p \in {q \in DOMAIN m : m[q] > 1}}
    IN  IF like = {} THEN 0 ELSE Min(like)

MaterialCount(m) == SumSeq([i \in 1..Len(Roles) |->
    (IF Piece("white", Roles[i]) \in DOMAIN m THEN m[Piece("white", Roles[i])] ELSE 0)
  + (IF Piece("black", Roles[i]) \in DOMAIN m THEN m[Piece("black", Roles[i])] ELSE 0)])

----------------------------------------------------------------------------
(* Byte ranges. *)

\* slice.get(off): Some(byte) inside the range, None outside.
Get(data, off) == IF off >= 0 /\ off < Len(data) THEN Ok(data[off + 1]) ELSE ErrOob

\* slice.get(from..): the rest of the range, None when from > len.
GetFrom(data, from) ==
    IF from >= 0 /\ from <= Len(data) THEN Ok(Skip(data, from)) ELSE ErrOob

\* Parse a piece list.
RECURSIVE parse_pieces_from(_, _, _, _)
parse_pieces_from(data, side, i, pieces) ==
    IF i > Len(data) \/ i > MAX_PIECES \/ data[i] = 0 THEN Ok(pieces)
    ELSE LET p == byte_to_piece(fold(side, data[i] \div 16, data[i] % 16))
         IN  IF p.tag # "Ok" THEN Fail(p)
             ELSE parse_pieces_from(data, side, i + 1, Append(pieces, p.val))

parse_pieces(data, side) == parse_pieces_from(data, side, 1, <<>>)

\* Lengths of the runs of equal consecutive elements (Itertools::group_by).
RECURSIVE RunLengths(_)
RunLengths(s) ==
    IF s = <<>> THEN <<>>
    ELSE LET n == Min({i \in 1..Len(s) : i = Len(s) \/ s[i + 1] # s[1]})
         IN  <<n>> \o RunLengths(Skip(s, n))

\* Group pieces that will be encoded together.
group_pieces(pieces) ==
    LET material == MaterialFromIter(pieces)
        first_len == IF MaterialHasPawns(material) THEN 0
                     ELSE IF MaterialUniquePieces(material) >= 3 THEN 3 ELSE 2
    IN  (IF first_len > 0 THEN <<first_len>> ELSE <<>>)
            \o RunLengths(Skip(pieces, first_len))

----------------------------------------------------------------------------
(* GroupData::parse for the variant Chess (CONNECTED_KINGS = false). *)

CONNECTED_KINGS == FALSE

\* The size of the leading group, or Panic where the source has a TODO panic.
LeadingSize(material) ==
    IF MaterialHasPawns(material) THEN Panic
    ELSE IF MaterialUniquePieces(material) >= 3 THEN Ok(31332)
    ELSE IF MaterialUniquePieces(material) = 2
        THEN Ok(IF CONNECTED_KINGS THEN 518 ELSE 462)
    ELSE IF MaterialMinLikeMan(material) = 2 THEN Ok(278)
    ELSE Panic

\* The branch the loop body takes at step k.
GroupBranch(order, k) ==
    IF k = order[1] THEN "leading"
    ELSE IF k = order[2] THEN "pawns"
    ELSE "pieces"

\* The loop of GroupData::parse.  st = [factors, free_squares, next, idx, k,
\* pawns]; pawns counts the passes through the "Remaining pawns" branch.
RECURSIVE GroupLoop(_, _, _, _)
GroupLoop(material, lens, order, st) ==
    IF ~(st.next < Len(lens) \/ st.k = order[1] \/ st.k = order[2])
        THEN Ok([st EXCEPT !.factors[Len(lens) + 1] = st.idx])
    ELSE IF GroupBranch(order, st.k) = "leading" THEN
        LET size == LeadingSize(material)
        IN  IF size.tag # "Ok" THEN Fail(size)
            ELSE GroupLoop(material, lens, order,
                    [st EXCEPT !.factors[1] = st.idx,
                               !.idx = st.idx * size.val,
                               !.k = st.k + 1])
    ELSE IF GroupBranch(order, st.k) = "pawns" THEN
        IF Len(lens) < 2 THEN Panic
        ELSE GroupLoop(material, lens, order,
                [st EXCEPT !.factors[2] = st.idx,
                           !.idx = st.idx * binomial(48 - lens[1], lens[2]),
                           !.pawns = st.pawns + 1,
                           !.k = st.k + 1])
    ELSE GroupLoop(material, lens, order,
            [st EXCEPT !.factors[st.next + 1] = st.idx,
                       !.idx = st.idx * binomial(st.free_squares, lens[st.next + 1]),
                       !.free_squares = st.free_squares - lens[st.next + 1],
                       !.next = st.next + 1,
                       !.k = st.k + 1])

GroupDataParse(data, ptr, side) ==
    LET rest == GetFrom(data, ptr + 1)
    IN  IF rest.tag # "Ok" THEN Fail(rest)
    ELSE LET parsed == parse_pieces(rest.val, side)
    IN  IF parsed.tag # "Ok" THEN Fail(parsed)
    ELSE LET pieces == parsed.val
             material == MaterialFromIter(pieces)
    IN  IF Len(pieces) < 2 THEN Err
    ELSE LET lens == group_pieces(pieces)
             ob == Get(data, ptr)
    IN  IF ob.tag # "Ok" THEN Fail(ob)
    ELSE LET hi == ob.val \div 16
             lo == ob.val % 16
             order == IF side = "black" THEN <<lo, hi>> ELSE <<hi, lo>>
             pp == SideHasPawns(material, "white") /\ SideHasPawns(material, "black")
             st0 == [factors |-> [i \in 1..(Len(lens) + 1) |-> 0],
                     free_squares |-> 64 - lens[1] - (IF pp THEN lens[2] ELSE 0),
                     next |-> IF pp THEN 2 ELSE 1,
                     idx |-> 1,
                     k |-> 0,
                     pawns |-> 0]
             done == GroupLoop(material, lens, order, st0)
    IN  IF done.tag # "Ok" THEN Fail(done)
        ELSE Ok([pieces |-> pieces, lens |-> lens,
                 factors |-> done.val.factors, pawns |-> done.val.pawns])

----------------------------------------------------------------------------
(* Table::probe_wdl_table.  A position is [board, turn, castling], board a  *)
(* function from the occupied squares to their pieces.                      *)

\* Material::from_board
MaterialFromBoard(board) ==
    [p \in {board[sq] : sq \in DOMAIN board} |->
        Cardinality({sq \in DOMAIN board : board[sq] = p})]

\* Board::by_piece
by_piece(board, piece) == {sq \in DOMAIN board : board[sq] = piece}

\* Whether the colours of the table's pieces are flipped to find them on the board.
FlipColors(tbl, p) ==
    LET symmetric_btm == MaterialIsSymmetric(tbl.key) /\ p.turn = "black"
        black_stronger == MaterialFromBoard(p.board) # tbl.key
    IN  symmetric_btm \/ black_stronger

SelectStmTurn(tbl, p) == p.turn

\* The side-to-move selector: Color::from_bool(.. ^ pos.turn().is_white()).
SelectStm(tbl, p) ==
    IF FlipColors(tbl, p) # (p.turn = "white") THEN "white" ELSE "black"

\* The loop that finds the square of every piece of the side's piece list.
RECURSIVE FindSquares(_, _, _, _, _)
FindSquares(pieces, board, flip, i, squares) ==
    IF i > Len(pieces) THEN Ok(squares)
    ELSE LET color == IF (pieces[i].color = "white") # flip THEN "white" ELSE "black"
             found == by_piece(board, Piece(color, pieces[i].role)) \ Range(squares)
         IN  IF found = {} THEN Panic
             ELSE FindSquares(pieces, board, flip, i + 1, Append(squares, Min(found)))

MapSquares(squares, from, mirror) ==
    [i \in 1..Len(squares) |-> IF i >= from THEN mirror[squares[i]] ELSE squares[i]]

HorizontalFoldAboveE(squares) ==
    IF file(squares[1]) > 4 THEN MapSquares(squares, 1, [sq \in Squares |-> mirror_horizontal(sq)])
    ELSE squares

HorizontalFold(squares) ==
    IF file(squares[1]) >= 4 THEN MapSquares(squares, 1, [sq \in Squares |-> mirror_horizontal(sq)])
    ELSE squares

VerticalFold(squares) ==
    IF rank(squares[1]) >= 4 THEN MapSquares(squares, 1, [sq \in Squares |-> mirror_vertical(sq)])
    ELSE squares

RECURSIVE DiagonalFoldFromNext(_, _, _)
DiagonalFoldFromNext(squares, lens0, i) ==
    IF i > lens0 THEN squares
    ELSE IF file(squares[i]) = rank(squares[i])
        THEN DiagonalFoldFromNext(squares, lens0, i + 1)
    ELSE IF rank(squares[i]) > file(squares[i])
        THEN MapSquares(squares, i + 1, [sq \in Squares |-> mirror_diagonal(sq)])
    ELSE squares

\* for i in 0..lens[0]: skip squares on the diagonal; the first one off it
\* decides whether squares[i..] are mirrored.  i counts from 1 here.
RECURSIVE DiagonalFold(_, _, _)
DiagonalFold(squares, lens0, i) ==
    IF i > lens0 THEN squares
    ELSE IF file(squares[i]) = rank(squares[i]) THEN DiagonalFold(squares, lens0, i + 1)
    ELSE IF rank(squares[i]) > file(squares[i])
        THEN MapSquares(squares, i, [sq \in Squares |-> mirror_diagonal(sq)])
    ELSE squares

Folds(squares, lens0) ==
    DiagonalFold(VerticalFold(HorizontalFold(squares)), lens0, 1)

\* The index of the leading group (squares[0], squares[1], squares[2]).
LeadingIndex(tbl, squares) ==
    IF tbl.num_unique_pieces > 2 THEN
        LET adjust1 == IF squares[2] > squares[1] THEN 1 ELSE 0
            adjust2 == (IF squares[3] > squares[1] THEN 1 ELSE 0)
                     + (IF squares[3] > squares[2] THEN 1 ELSE 0)
        IN  IF offdiag(squares[1])
                THEN Ok(TRIANGLE[squares[1] + 1] * 63 * 62
                        + (squares[2] - adjust1) * 62
                        + (squares[3] - adjust2))
            ELSE Panic
    ELSE Panic

\* slice::sort
RECURSIVE SortSquares(_)
SortSquares(s) ==
    IF s = <<>> THEN <<>>
    ELSE LET m == Min(Range(s))
             at == Min({i \in 1..Len(s) : s[i] = m})
         IN  <<m>> \o SortSquares(SubSeq(s, 1, at - 1) \o SubSeq(s, at + 1, Len(s)))

\* n of one group: the sum over the sorted group of binomial(square - adjust, i + 1).
RECURSIVE GroupRank(_, _, _)
GroupRank(prev, group, i) ==
    IF i > Len(group) THEN 0
    ELSE LET adjust == Cardinality({j \in 1..Len(prev) : group[i] > prev[j]})
         IN  binomial(group[i] - adjust, i) + GroupRank(prev, group, i + 1)

\* The loop over lens[1..]: st = [squares, idx, group_sq]; next counts from 1.
RECURSIVE RemainingGroups(_, _, _)
RemainingGroups(groups, st, next) ==
    IF next >= Len(groups.lens) THEN st
    ELSE LET len == groups.lens[next + 1]
             prev == SubSeq(st.squares, 1, st.group_sq)
             group == SortSquares(SubSeq(st.squares, st.group_sq + 1, st.group_sq + len))
             n == GroupRank(prev, group, 1)
         IN  RemainingGroups(groups,
                [squares |-> prev \o group
                             \o Skip(st.squares, st.group_sq + len),
                 idx |-> st.idx + n * groups.factors[next + 1],
                 group_sq |-> st.group_sq + len],
                next + 1)

\* The index of the folded squares: the leading group times factors[0], plus
\* n * factors[next] for every remaining group; the squares with every
\* remaining group sorted, and the index.
IndexOfSquares(tbl, groups, folded) ==
    LET lead == LeadingIndex(tbl, folded)
    IN  IF lead.tag # "Ok" THEN Fail(lead)
        ELSE Ok(RemainingGroups(groups,
                    [squares |-> folded,
                     idx |-> lead.val * groups.factors[1],
                     group_sq |-> groups.lens[1]], 1))

\* The byte -> Wdl match at the end of probe_wdl_table.
MapWdl(byte) ==
    IF byte = 0 THEN Ok("Loss")
    ELSE IF byte = 1 THEN Ok("BlessedLoss")
    ELSE IF byte = 2 THEN Ok("Draw")
    ELSE IF byte = 3 THEN Ok("CursedWin")
    ELSE IF byte = 4 THEN Ok("Win")
    ELSE Panic

\* What decompress_pairs returns for the probed table: the byte stored for
\* (side, idx) in the table's immutable byte range.
StoredByte(side, idx) ==
    LET v == (idx + side) % 8
    IN  IF v = 7 THEN 255 ELSE v

\* probe_wdl_table: the selected side entry (read), the squares found on the
\* board, the squares after the three folds, the squares after the groups are
\* sorted in place, the index, the decompressed byte and the result.  A field
\* the call did not get to holds <<>> or -1.
ProbeWdlTable(tbl, p) ==
    LET key == MaterialFromBoard(p.board)
        flip == FlipColors(tbl, p)
        stm == SelectStm(tbl, p)
        entry == fold(stm, 0, 1)
        base == [stm |-> stm, read |-> {}, found |-> <<>>, folded |-> <<>>,
                 squares |-> <<>>, idx |-> -1, byte |-> -1, result |-> Panic]
    IN  IF MaterialHasPawns(key) THEN base
    ELSE IF entry >= Len(tbl.files[1].sides) THEN base
    ELSE LET d == tbl.files[1].sides[entry + 1]
             found == FindSquares(d.groups.pieces, p.board, flip, 1, <<>>)
    IN  IF found.tag # "Ok" THEN [base EXCEPT !.read = {entry}]
    ELSE LET folded == Folds(found.val, d.groups.lens[1])
             indexed == IndexOfSquares(tbl, d.groups, folded)
    IN  IF indexed.tag # "Ok"
            THEN [base EXCEPT !.read = {entry}, !.found = found.val,
                              !.folded = folded, !.squares = folded]
    ELSE LET st == indexed.val
             byte == StoredByte(entry, st.idx)
    IN  [stm |-> stm, read |-> {entry}, found |-> found.val, folded |-> folded,
         squares |-> st.squares, idx |-> st.idx, byte |-> byte,
         result |-> MapWdl(byte)]

----------------------------------------------------------------------------
(* 64-bit unsigned values, as sequences of 64 bits, most significant first. *)

Zero64 == SubSeq([i \in 1..64 |-> 0], 1, 64)

\* The bits of a natural number below 2^31.
Bits64(v) ==
    SubSeq([i \in 1..64 |-> IF 64 - i > 30 THEN 0 ELSE (v \div (2 ^ (64 - i))) % 2], 1, 64)

\* a << s for 0 <= s < 64: the bits shifted out at the top are lost.
Shl64(a, s) == SubSeq(a, s + 1, 64) \o SubSeq(Zero64, 1, s)

\* a >> s for 0 <= s < 64.
Shr64(a, s) == SubSeq(Zero64, 1, s) \o SubSeq(a, 1, 64 - s)

\* a < b
Less64(a, b) ==
    \E i \in 1..64 : a[i] < b[i] /\ \A j \in 1..(i - 1) : a[j] = b[j]

\* a | b
Or64(a, b) == SubSeq([i \in 1..64 |-> IF a[i] = 1 \/ b[i] = 1 THEN 1 ELSE 0], 1, 64)

\* The borrow out of bit i (and below) of a - b: 1 when the bits i..64 of a
\* are a smaller number than those of b.
Borrow64(a, b, i) ==
    IF \E j \in i..64 : a[j] < b[j] /\ \A k \in i..(j - 1) : a[k] = b[k] THEN 1 ELSE 0

\* a - b modulo 2^64
Sub64(a, b) ==
    SubSeq([i \in 1..64 |-> (a[i] - b[i] - Borrow64(a, b, i + 1) + 2) % 2], 1, 64)

\* The value of the low n bits of a (n <= 16): `as u16`.
RECURSIVE LowBits(_, _)
LowBits(a, n) ==
    IF n = 0 THEN 0 ELSE a[64 - n + 1] * (2 ^ (n - 1)) + LowBits(a, n - 1)

----------------------------------------------------------------------------
(* Reads of the byte range. *)

\* LittleEndian::read_u16(data.get(off..off + 2)?)
GetU16(data, off) ==
    IF off >= 0 /\ off + 2 <= Len(data)
        THEN Ok(data[off + 1] + 256 * data[off + 2])
    ELSE ErrOob

\* LittleEndian::read_u32(data.get(off..off + 4)?)
GetU32(data, off) ==
    IF off >= 0 /\ off + 4 <= Len(data)
        THEN Ok(data[off + 1] + 256 * data[off + 2]
                + 65536 * data[off + 3] + 16777216 * data[off + 4])
    ELSE ErrOob

\* data[off]: panics outside the range.
Index(data, off) == IF off >= 0 /\ off < Len(data) THEN Ok(data[off + 1]) ELSE PanicOob

\* LittleEndian::read_u16(&data[off..]): the slicing panics past the end, the
\* read panics on fewer than 2 bytes.
IndexU16(data, off) ==
    IF off >= 0 /\ off + 2 <= Len(data)
        THEN Ok(data[off + 1] + 256 * data[off + 2])
    ELSE PanicOob

\* LittleEndian::read_u32(&data[off..])
IndexU32(data, off) ==
    IF off >= 0 /\ off + 4 <= Len(data)
        THEN Ok(data[off + 1] + 256 * data[off + 2]
                + 65536 * data[off + 3] + 16777216 * data[off + 4])
    ELSE PanicOob

\* 1 << b on usize: a shift by 64 or more overflows.
ShlOne(b) ==
    IF b >= 64 THEN (IF overflow_checks THEN Panic ELSE Ok(2 ^ (b % 64)))
    ELSE Ok(2 ^ b)

----------------------------------------------------------------------------
(* calc_symlen: build the symlen table.  st = [symlen, visited, entered];   *)
(* entered[s] counts the calls made for symbol s.  active is the set of    *)
(* symbols whose call has not returned: a call for one of them never       *)
(* returns (the recursion overflows the stack).                            *)

RECURSIVE calc_symlen(_, _, _, _, _)

\* if !visited[c] { calc_symlen(.., c) }
VisitChild(data, btree, st, c, active) ==
    IF c >= Len(st.symlen) THEN Panic
    ELSE IF c \in st.visited THEN Ok(st)
    ELSE IF c \in active THEN Panic
    ELSE calc_symlen(data, btree, st, c, active)

calc_symlen(data, btree, st, s, active) ==
    LET w == btree + 3 * s
    IN  IF Index(data, w + 2).tag # "Ok" THEN Fail(Index(data, w + 2))
    ELSE LET sr == data[w + 3] * 16 + (data[w + 2] \div 16)
             st1 == [st EXCEPT !.entered[s + 1] = @ + 1]
    IN  IF sr = 4095
            THEN Ok([st1 EXCEPT !.symlen[s + 1] = 0, !.visited = @ \cup {s}])
    ELSE LET sl == (data[w + 2] % 16) * 256 + data[w + 1]
             a == VisitChild(data, btree, st1, sl, active \cup {s})
    IN  IF a.tag # "Ok" THEN Fail(a)
    ELSE LET b == VisitChild(data, btree, a.val, sr, active \cup {s})
    IN  IF b.tag # "Ok" THEN Fail(b)
    ELSE LET sum == b.val.symlen[sl + 1] + b.val.symlen[sr + 1] + 1
    IN  IF sum > 255 /\ overflow_checks THEN Panic
        ELSE Ok([b.val EXCEPT !.symlen[s + 1] = sum % 256, !.visited = @ \cup {s}])

\* for s in 0..symlen.len() { if !visited[s] { calc_symlen(.., s) } }
RECURSIVE SymlenLoop(_, _, _, _)
SymlenLoop(data, btree, st, s) ==
    IF s >= Len(st.symlen) THEN Ok(st)
    ELSE LET r == VisitChild(data, btree, st, s, {})
         IN  IF r.tag # "Ok" THEN Fail(r)
             ELSE SymlenLoop(data, btree, r.val, s + 1)

----------------------------------------------------------------------------
(* PairsData::new *)

\* Flag::from_bits_truncate: STM = 1, MAPPED = 2, WIN_PLIES = 4, LOSS_PLIES = 8,
\* SINGLE_VALUE = 128.
FlagBits(byte) == {b \in {1, 2, 4, 8, 128} : (byte \div b) % 2 = 1}

\* h = usize::from(max_symlen - min_symlen + 1), computed in u8.
SymlenHeight(max_symlen, min_symlen) ==
    LET d == max_symlen - min_symlen
    IN  IF d < 0 THEN (IF overflow_checks THEN Panic ELSE Ok((d + 256 + 1) % 256))
        ELSE IF d + 1 > 255 THEN (IF overflow_checks THEN Panic ELSE Ok(0))
        ELSE Ok(d + 1)

\* for i in (0..=h - 2).rev(): base[i] from base[i + 1] and the lowest_sym
\* table, before the shift.  base is the sequence base[i + 1..h], i from 0.
RECURSIVE BaseLoop(_, _, _, _)
BaseLoop(data, lowest_sym, i, base) ==
    IF i < 0 THEN Ok(base)
    ELSE LET a == GetU16(data, lowest_sym + i * 2)
             b == GetU16(data, lowest_sym + i * 2 + 2)
         IN  IF a.tag # "Ok" \/ b.tag # "Ok" THEN FirstFail(a, b)
             ELSE IF base[1] + a.val - b.val < 0 THEN Err
             ELSE LET v == (base[1] + a.val - b.val) \div 2
                  IN  IF v * 2 < base[1] THEN Err
                      ELSE BaseLoop(data, lowest_sym, i - 1, <<v>> \o base)

\* The unshifted base array; h - 2 underflows for h < 2.
BaseArray(data, lowest_sym, h) ==
    IF h >= 2 THEN BaseLoop(data, lowest_sym, h - 2, <<0>>)
    ELSE IF overflow_checks THEN Panic
    ELSE IF h = 0 THEN Panic
    ELSE LET a == GetU16(data, lowest_sym - 2)
             b == GetU16(data, lowest_sym)
         IN  IF a.tag # "Ok" \/ b.tag # "Ok" THEN FirstFail(a, b)
             ELSE IF a.val - b.val < 0 THEN Err
             ELSE Panic

\* The shift amount of base[i] <<= 64 - (min_symlen + i as u8), computed in u8.
BaseShift(min_symlen, i) ==
    LET x == min_symlen + (i % 256)
    IN  IF x > 255 /\ overflow_checks THEN Panic
        ELSE IF 64 - (x % 256) < 0 THEN
            (IF overflow_checks THEN Panic ELSE Ok((64 - (x % 256) + 256) % 64))
        ELSE IF 64 - (x % 256) >= 64 THEN
            (IF overflow_checks THEN Panic ELSE Ok((64 - (x % 256)) % 64))
        ELSE Ok(64 - (x % 256))

\* for i in 0..h { base[i] <<= .. }
ShiftBase(base, min_symlen) ==
    IF \E i \in 1..Len(base) : BaseShift(min_symlen, i - 1).tag # "Ok" THEN Panic
    ELSE Ok([i \in 1..Len(base) |->
                Shl64(Bits64(base[i]), BaseShift(min_symlen, i - 1).val)])

PairsDataNew(data, ptr, groups) ==
    LET fb == Get(data, ptr)
    IN  IF fb.tag # "Ok" THEN Fail(fb)
    ELSE IF 128 \in FlagBits(fb.val) THEN Panic
    ELSE LET tb_size == groups.factors[Len(groups.lens) + 1]
             bs == Get(data, ptr + 1)
    IN  IF bs.tag # "Ok" THEN Fail(bs)
    ELSE IF ShlOne(bs.val).tag # "Ok" THEN Fail(ShlOne(bs.val))
    ELSE LET sp == Get(data, ptr + 2)
    IN  IF sp.tag # "Ok" THEN Fail(sp)
    ELSE IF ShlOne(sp.val).tag # "Ok" THEN Fail(ShlOne(sp.val))
    ELSE LET block_size == ShlOne(bs.val).val
             span == ShlOne(sp.val).val
             sparse_index_size == (tb_size + span - 1) \div span
             padding == Get(data, ptr + 3)
             bn == GetU32(data, ptr + 4)
             maxs == Get(data, ptr + 8)
             mins == Get(data, ptr + 9)
    IN  IF padding.tag # "Ok" \/ bn.tag # "Ok" \/ maxs.tag # "Ok" \/ mins.tag # "Ok"
            THEN ErrOob
    ELSE LET hh == SymlenHeight(maxs.val, mins.val)
             lowest_sym == ptr + 10
    IN  IF hh.tag # "Ok" THEN Fail(hh)
    ELSE LET h == hh.val
             unshifted == BaseArray(data, lowest_sym, h)
    IN  IF unshifted.tag # "Ok" THEN Fail(unshifted)
    ELSE LET base == ShiftBase(unshifted.val, mins.val)
    IN  IF base.tag # "Ok" THEN Fail(base)
    ELSE LET count == IndexU16(data, ptr + 10 + h * 2)
             btree == ptr + 10 + h * 2 + 2
    IN  IF count.tag # "Ok" THEN Fail(count)
    ELSE LET n == count.val
             syms == SymlenLoop(data, btree,
                        [symlen |-> [i \in 1..n |-> 0], visited |-> {},
                         entered |-> [i \in 1..n |-> 0]], 0)
    IN  IF syms.tag # "Ok" THEN Fail(syms)
    ELSE Ok([pairs |->
                [flags |-> FlagBits(fb.val),
                 groups |-> groups,
                 block_size |-> block_size,
                 span |-> span,
                 blocks_num |-> bn.val,
                 btree |-> btree,
                 min_symlen |-> mins.val,
                 lowest_sym |-> lowest_sym,
                 base |-> base.val,
                 unshifted |-> unshifted.val,
                 symlen |-> syms.val.symlen,
                 entered |-> syms.val.entered,
                 sparse_index |-> 0,
                 sparse_index_size |-> sparse_index_size,
                 block_lengths |-> 0,
                 block_length_size |-> bn.val + padding.val,
                 data |-> 0],
             next_ptr |-> btree + n * 3 + (n % 2)])

----------------------------------------------------------------------------
(* Table::new *)

WDL_MAGIC == <<113, 232, 35, 93>>

\* data.starts_with(&P::WDL_MAGIC)
StartsWithMagic(data) == Len(data) >= 4 /\ SubSeq(data, 1, 4) = WDL_MAGIC

\* (ptr + 0x3f) & !0x3f
Align64(ptr) == ((ptr + 63) \div 64) * 64

\* The region offsets Table::new fills in after both headers are parsed.
PlaceRegions(s0, s1, ptr) ==
    LET sparse0 == ptr
        sparse1 == sparse0 + s0.sparse_index_size * 6
        lengths0 == sparse1 + s1.sparse_index_size * 6
        lengths1 == lengths0 + s0.block_length_size * 2
        data0 == Align64(lengths1 + s1.block_length_size * 2)
        data1 == Align64(data0 + s0.blocks_num * s0.block_size)
    IN  << [s0 EXCEPT !.sparse_index = sparse0, !.block_lengths = lengths0,
                      !.data = data0],
           [s1 EXCEPT !.sparse_index = sparse1, !.block_lengths = lengths1,
                      !.data = data1] >>

\* Table::new.  parsed counts the calls of PairsData::new.
TableNew(data) ==
    LET failed(x, n) == [tag |-> x.tag, oob |-> x.oob, parsed |-> n]
    IN  IF ~StartsWithMagic(data) THEN failed(Panic, 0)
    ELSE IF Len(data) < 6 THEN failed(PanicOob, 0)
    ELSE LET layout == data[5]
             has_pawns == (layout \div 2) % 2 = 1
             split == layout % 2 = 1
             keyp == parse_pieces(Skip(data, 6), "white")
    IN  IF keyp.tag # "Ok" THEN failed(Fail(keyp), 0)
    ELSE LET key == MaterialFromIter(keyp.val)
    IN  IF has_pawns # MaterialHasPawns(key) THEN failed(Panic, 0)
    ELSE IF split = MaterialIsSymmetric(key) THEN failed(Panic, 0)
    ELSE IF has_pawns THEN failed(Panic, 0)
    ELSE LET g0 == GroupDataParse(data, 5, "black")
    IN  IF g0.tag # "Ok" THEN failed(g0, 0)
    ELSE LET p0 == 5 + Len(g0.val.pieces) + 1
             p1 == PairsDataNew(data, p0 + (p0 % 2), g0.val)
    IN  IF p1.tag # "Ok" THEN failed(p1, 1)
    ELSE LET g1 == GroupDataParse(data, 5, "white")
    IN  IF g1.tag # "Ok" THEN failed(g1, 1)
    ELSE LET p2 == PairsDataNew(data, p1.val.next_ptr, g1.val)
    IN  IF p2.tag # "Ok" THEN failed(p2, 2)
    ELSE [tag |-> "Ok", oob |-> FALSE, parsed |-> 2,
          val |-> [key |-> key,
                   num_pieces |-> MaterialCount(key),
                   num_unique_pieces |-> MaterialUniquePieces(key),
                   min_like_man |-> MaterialMinLikeMan(key),
                   files |-> << [sides |->
                        PlaceRegions(p1.val.pairs, p2.val.pairs, p2.val.next_ptr)] >>,
                   data |-> data]]

----------------------------------------------------------------------------
(* Table::decompress_pairs *)

ByteBits(b) == SubSeq([i \in 1..8 |-> (b \div (2 ^ (8 - i))) % 2], 1, 8)

\* The n bytes at off as 8 * n bits, big endian.
RECURSIVE BytesBits(_, _, _)
BytesBits(data, off, n) ==
    IF n = 0 THEN <<>> ELSE ByteBits(data[off + 1]) \o BytesBits(data, off + 1, n - 1)

\* BigEndian::read_u64(&data[off..])
IndexU64BE(data, off) ==
    IF off >= 0 /\ off + 8 <= Len(data) THEN Ok(BytesBits(data, off, 8)) ELSE PanicOob

\* u64::from(BigEndian::read_u32(&data[off..]))
IndexU32BE(data, off) ==
    IF off >= 0 /\ off + 4 <= Len(data)
        THEN Ok(SubSeq(Zero64, 1, 32) \o BytesBits(data, off, 4))
    ELSE PanicOob

RECURSIVE WalkBackNoPlusOne(_, _, _, _)
WalkBackNoPlusOne(data, d, block, offset) ==
    IF offset >= 0 THEN Ok([block |-> block, offset |-> offset])
    ELSE IF block - 1 < 0 /\ overflow_checks THEN Panic
    ELSE LET l == IndexU16(data, d.block_lengths + (block - 1) * 2)
         IN  IF l.tag # "Ok" THEN Fail(l)
             ELSE WalkBackNoPlusOne(data, d, block - 1, offset + l.val)

\* while offset < 0 { block -= 1; offset += block_lengths[block] + 1 }
RECURSIVE WalkBack(_, _, _, _)
WalkBack(data, d, block, offset) ==
    IF offset >= 0 THEN Ok([block |-> block, offset |-> offset])
    ELSE IF block - 1 < 0 /\ overflow_checks THEN Panic
    ELSE LET l == IndexU16(data, d.block_lengths + (block - 1) * 2)
         IN  IF l.tag # "Ok" THEN Fail(l)
             ELSE WalkBack(data, d, block - 1, offset + l.val + 1)

\* while offset > block_lengths[block] { offset -= block_lengths[block] + 1; block += 1 }
RECURSIVE WalkForward(_, _, _, _)
WalkForward(data, d, block, offset) ==
    LET l == IndexU16(data, d.block_lengths + block * 2)
    IN  IF l.tag # "Ok" THEN Fail(l)
        ELSE IF offset > l.val THEN WalkForward(data, d, block + 1, offset - l.val - 1)
        ELSE Ok([block |-> block, offset |-> offset])

\* while buf_64 < d.base[len] { len += 1 }
RECURSIVE LengthSearch(_, _, _)
LengthSearch(base, buf_64, len) ==
    IF len >= Len(base) THEN Panic
    ELSE IF Less64(buf_64, base[len + 1]) THEN LengthSearch(base, buf_64, len + 1)
    ELSE Ok(len)

\* A shift amount of a 64-bit value: 64 or more overflows.
ShiftAmount(n) ==
    IF n < 0 \/ n >= 64 THEN (IF overflow_checks THEN Panic ELSE Ok(n % 64))
    ELSE Ok(n)

\* The Huffman decode loop.  st = [buf_64, buf_64_size, ptr, offset].
RECURSIVE HuffmanLoop(_, _, _)
HuffmanLoop(data, d, st) ==
    LET found == LengthSearch(d.base, st.buf_64, 0)
    IN  IF found.tag # "Ok" THEN Fail(found)
    ELSE LET len == found.val
             shift == ShiftAmount(64 - len - d.min_symlen)
             low == IndexU16(data, d.lowest_sym + 2 * len)
    IN  IF shift.tag # "Ok" \/ low.tag # "Ok" THEN FirstFail(shift, low)
    ELSE LET code == LowBits(Shr64(Sub64(st.buf_64, d.base[len + 1]), shift.val), 16)
    IN  IF code + low.val > 65535 /\ overflow_checks THEN Panic
    ELSE LET sym == (code + low.val) % 65536
    IN  IF sym >= Len(d.symlen) THEN Panic
    ELSE IF st.offset < d.symlen[sym + 1] + 1 THEN Ok([sym |-> sym, offset |-> st.offset])
    ELSE LET used == len + d.min_symlen
             by == ShiftAmount(used)
    IN  IF by.tag # "Ok" THEN Fail(by)
    ELSE IF st.buf_64_size - used < 0 /\ overflow_checks THEN Panic
    ELSE LET size == st.buf_64_size - used
             buf == Shl64(st.buf_64, by.val)
             offset == st.offset - d.symlen[sym + 1] - 1
    IN  IF size > 32
            THEN HuffmanLoop(data, d, [buf_64 |-> buf, buf_64_size |-> size,
                                       ptr |-> st.ptr, offset |-> offset])
    ELSE LET more == IndexU32BE(data, st.ptr)
             fill == ShiftAmount(64 - (size + 32))
    IN  IF more.tag # "Ok" \/ fill.tag # "Ok" THEN FirstFail(more, fill)
        ELSE HuffmanLoop(data, d,
                [buf_64 |-> Or64(buf, Shl64(more.val, fill.val)),
                 buf_64_size |-> size + 32,
                 ptr |-> st.ptr + 4, offset |-> offset])

\* The two 12-bit fields of the 3-byte node of sym.
Low12(data, w) == (data[w + 2] % 16) * 256 + data[w + 1]
High12(data, w) == data[w + 3] * 16 + (data[w + 2] \div 16)

\* The field the descent of decompress_pairs calls `left`, and the other one.
DescentLeft(data, w) == High12(data, w)
DescentRight(data, w) == Low12(data, w)

\* while d.symlen[sym] != 0 { .. }; return data[btree + 3 * sym]
RECURSIVE Descent(_, _, _, _)
Descent(data, d, sym, offset) ==
    IF sym >= Len(d.symlen) THEN Panic
    ELSE IF d.symlen[sym + 1] = 0 THEN Index(data, d.btree + 3 * sym)
    ELSE LET w == d.btree + 3 * sym
    IN  IF Index(data, w + 2).tag # "Ok" THEN Fail(Index(data, w + 2))
    ELSE LET left == DescentLeft(data, w)
    IN  IF left >= Len(d.symlen) THEN Panic
        ELSE IF offset < d.symlen[left + 1] + 1 THEN Descent(data, d, left, offset)
        ELSE Descent(data, d, DescentRight(data, w), offset - d.symlen[left + 1] - 1)

\* The sparse index lookup and the two block-walking loops.  Besides the block
\* and offset they end with, the result records the block and offset they
\* start from and the block the first loop ends with.
BlockWalk(data, d, idx) ==
    LET k == idx \div d.span
        b0 == IndexU32(data, d.sparse_index + 6 * k)
        o0 == IndexU16(data, d.sparse_index + 6 * k + 4)
    IN  IF b0.tag # "Ok" \/ o0.tag # "Ok" THEN FirstFail(b0, o0)
    ELSE LET diff == (idx % d.span) - (d.span \div 2)
             back == WalkBack(data, d, b0.val, o0.val + diff)
    IN  IF back.tag # "Ok" THEN Fail(back)
    ELSE LET walk == WalkForward(data, d, back.val.block, back.val.offset)
    IN  IF walk.tag # "Ok" THEN Fail(walk)
        ELSE Ok([block |-> walk.val.block, offset |-> walk.val.offset,
                 first_block |-> b0.val, first_offset |-> o0.val + diff,
                 back_block |-> back.val.block])

\* decompress_pairs.  Besides the returned byte the result records the block
\* and offset after the walk and the symbol and offset the descent starts from.
DecompressPairs(data, d, idx) ==
    IF 128 \in d.flags THEN Ok([byte |-> d.min_symlen])
    ELSE LET walk == BlockWalk(data, d, idx)
    IN  IF walk.tag # "Ok" THEN Fail(walk)
    ELSE LET ptr == d.data + walk.val.block * d.block_size
             first == IndexU64BE(data, ptr)
    IN  IF first.tag # "Ok" THEN Fail(first)
    ELSE LET huff == HuffmanLoop(data, d,
                        [buf_64 |-> first.val, buf_64_size |-> 64,
                         ptr |-> ptr + 8, offset |-> walk.val.offset])
    IN  IF huff.tag # "Ok" THEN Fail(huff)
    ELSE LET byte == Descent(data, d, huff.val.sym, huff.val.offset)
    IN  IF byte.tag # "Ok" THEN Fail(byte)
        ELSE Ok([byte |-> byte.val, block |-> walk.val.block,
                 block_offset |-> walk.val.offset,
                 sym |-> huff.val.sym, sym_offset |-> huff.val.offset])

----------------------------------------------------------------------------
(* impl From<io::Error> for ProbeError (errors.rs) *)

IoErrorKinds ==
    {"NotFound", "PermissionDenied", "ConnectionRefused", "ConnectionReset",
     "ConnectionAborted", "NotConnected", "AddrInUse", "AddrNotAvailable",
     "BrokenPipe", "AlreadyExists", "WouldBlock", "InvalidInput", "InvalidData",
     "TimedOut", "WriteZero", "Interrupted", "Unsupported", "UnexpectedEof",
     "OutOfMemory", "Other"}

FromIoErrorEofAndInvalidData(error) ==
    IF error.kind \in {"UnexpectedEof", "InvalidData"}
        THEN [tag |-> "CorruptedTable", backtrace |-> "captured"]
    ELSE [tag |-> "Read", error |-> error]

FromIoError(error) ==
    IF error.kind = "UnexpectedEof"
        THEN [tag |-> "CorruptedTable", backtrace |-> "captured"]
    ELSE [tag |-> "Read", error |-> error]

----------------------------------------------------------------------------
(* Table files the model opens. *)

U16LE(v) == <<v % 256, v \div 256>>
U32LE(v) == <<v % 256, (v \div 256) % 256, (v \div 65536) % 256, v \div 16777216>>

RECURSIVE Flatten(_)
Flatten(ss) == IF ss = <<>> THEN <<>> ELSE ss[1] \o Flatten(Tail(ss))

Zeros(n) == [i \in 1..n |-> 0]

\* A terminal node of the symbol tree: the value in the low byte, 0xFFF in the
\* high 12 bits.
TerminalNode(v) == <<v, 240, 255>>

\* A node whose low 12 bits are l and whose high 12 bits are r.
PairNode(l, r) == <<l % 256, (l \div 256) + 16 * (r % 16), r \div 16>>

\* A pairs-data header: flags, block size and span (log2), padding, blocks_num,
\* max_symlen, min_symlen, the lowest_sym table, the symbol count and tree.
PairsHeader(flags, bs, sp, padding, blocks, maxs, mins, lowest, nodes) ==
    <<flags, bs, sp, padding>> \o U32LE(blocks) \o <<maxs, mins>>
        \o Flatten([i \in 1..Len(lowest) |-> U16LE(lowest[i])])
        \o U16LE(Len(nodes)) \o Flatten(nodes) \o Zeros(Len(nodes) % 2)

\* Magic, layout flags, order byte and piece list, padded to an even offset.
FileHeader(layout, order, piece_bytes) ==
    WDL_MAGIC \o <<layout, order>> \o piece_bytes \o Zeros(Len(piece_bytes) % 2)

PadTo64(bytes) == bytes \o Zeros(Align64(Len(bytes)) - Len(bytes))

\* A header with code lengths 1 and 2: symbols 0 and 1 are the terminals a and
\* b (codes 00 and 01), symbol 2 is the pair (0, 1) (code 1).
TwoValueHeader(sp, blocks, a, b) ==
    PairsHeader(0, 3, sp, 0, blocks, 2, 1, <<2, 0>>,
                <<TerminalNode(a), TerminalNode(b), PairNode(0, 1)>>)

\* Piece codes: 1..6 = pawn..king, + 8 for black; high nibble for the white
\* parse, low nibble for the black parse.
PiecesKQvKR == <<102, 94, 229, 204>>        \* K Q k r / K k Q r
PiecesKQvKQ == <<102, 85, 238, 221>>        \* K Q k q
PiecesKRRvK == <<102, 238, 68, 68>>         \* K k R R
PiecesKRRvKQ == <<102, 237, 222, 68, 68>>   \* K k q R R / K q k R R
PiecesKQvK == <<102, 85, 238>>              \* K Q k
PiecesKvK == <<102, 238>>                   \* K k

\* Files that end after the two pairs-data headers: Table::new reads no
\* further.
HeadersFile(layout, order, piece_bytes, sp) ==
    FileHeader(layout, order, piece_bytes)
        \o TwoValueHeader(sp, 1, 0, 4) \o TwoValueHeader(sp, 1, 4, 0)

ProbeFiles ==
    { HeadersFile(1, 17, PiecesKQvKR, 21),
      HeadersFile(0, 0, PiecesKQvKQ, 21),
      HeadersFile(1, 0, PiecesKRRvK, 20),
      HeadersFile(1, 0, PiecesKRRvKQ, 26) }

----------------------------------------------------------------------------
(* Spec: a table is open and one position is probed (probe_wdl_table takes  *)
(* the table by value, so a table is probed once).                          *)

None == [tag |-> "None"]

\* Squares the pieces after the first one stand on.
OtherSquares == {(5 * k) % 64 : k \in 0..(NumOtherSquares - 1)}

Injective(s) == \A i, j \in 1..Len(s) : i # j => s[i] # s[j]

\* Placements of n pieces: the first anywhere, the others on OtherSquares.
Placements(n) ==
    {p \in {<<a>> \o rest : a \in Squares, rest \in [1..(n - 1) -> OtherSquares]} :
        Injective(p)}

\* The pieces of the table's key in file order, colours swapped when flip.
KeyPieces(file_bytes, flip) ==
    LET ps == parse_pieces(Skip(file_bytes, 6), "white").val
    IN  [i \in 1..Len(ps) |->
            IF flip THEN Piece(OtherColor(ps[i].color), ps[i].role) ELSE ps[i]]

BoardOf(pieces, place) ==
    [sq \in Range(place) |-> pieces[CHOOSE i \in 1..Len(place) : place[i] = sq]]

Idle ==
    /\ io_error = None /\ probe_error = None
    /\ input = None /\ for_side = None /\ group_data = None
    /\ pairs_data = None /\ search = None /\ opened = None /\ dec = None

Init ==
    /\ pc = "open"
    /\ overflow_checks = TRUE
    /\ \E f \in ProbeFiles :
        /\ table = TableNew(f).val
        /\ \E flip \in BOOLEAN, turn \in {"white", "black"}, castling \in BOOLEAN :
           \E place \in Placements(Len(KeyPieces(f, flip))) :
                pos = [board |-> BoardOf(KeyPieces(f, flip), place),
                       turn |-> turn, castling |-> castling]
    /\ probe = None
    /\ Idle

Probe ==
    /\ pc = "open"
    /\ probe' = ProbeWdlTable(table, pos)
    /\ pc' = "probed"
    /\ UNCHANGED <<table, pos, io_error, probe_error, overflow_checks, input,
                   for_side, group_data, pairs_data, search, opened, dec>>

Next == Probe

Spec == Init /\ [][Next]_vars

----------------------------------------------------------------------------
(* SpecIo: an io::Error is converted into a ProbeError. *)

InitIo ==
    /\ pc = "io"
    /\ \E kind \in IoErrorKinds, code \in 0..MaxOsCode :
        io_error = [kind |-> kind, raw_os_error |-> code]
    /\ probe_error = None
    /\ overflow_checks = TRUE
    /\ table = None /\ pos = None /\ probe = None
    /\ input = None /\ for_side = None /\ group_data = None
    /\ pairs_data = None /\ search = None /\ opened = None /\ dec = None

Convert ==
    /\ pc = "io"
    /\ probe_error' = FromIoError(io_error)
    /\ pc' = "converted"
    /\ UNCHANGED <<table, pos, probe, io_error, overflow_checks, input, for_side,
                   group_data, pairs_data, search, opened, dec>>

NextIo == Convert

SpecIo == InitIo /\ [][NextIo]_vars

----------------------------------------------------------------------------
(* SpecGroup: GroupData::parse of a pawnless piece list, for every order    *)
(* byte and both sides.                                                     *)

PawnlessLists == {PiecesKQvKR, PiecesKQvKQ, PiecesKRRvK, PiecesKQvK, PiecesKvK}

InitGroup ==
    /\ pc = "group"
    /\ overflow_checks = TRUE
    /\ \E order \in 0..255, piece_bytes \in PawnlessLists :
        input = FileHeader(1, order, piece_bytes)
    /\ for_side \in {"white", "black"}
    /\ group_data = None
    /\ table = None /\ pos = None /\ probe = None
    /\ io_error = None /\ probe_error = None
    /\ pairs_data = None /\ search = None /\ opened = None /\ dec = None

ParseGroups ==
    /\ pc = "group"
    /\ group_data' = GroupDataParse(input, 5, for_side)
    /\ pc' = "grouped"
    /\ UNCHANGED <<table, pos, probe, io_error, probe_error, overflow_checks, input,
                   for_side, pairs_data, search, opened, dec>>

NextGroup == ParseGroups

SpecGroup == InitGroup /\ [][NextGroup]_vars

----------------------------------------------------------------------------
(* SpecPairs: PairsData::new on a pairs-data header, then the length search *)
(* of decompress_pairs on the base array it built.                          *)

\* The largest entry of the lowest_sym table.
MaxLowestSym == 5

\* The largest number of code lengths (max_symlen - min_symlen + 1).
MaxHeight == 3

\* The largest min_symlen.
MaxMinSymlen == 2

\* The leading bits of buf_64 that vary.
BufBits == 3

\* 64-bit buffers: every pattern of the leading bits, followed by all zeros
\* or all ones.
BufSamples ==
    {[i \in 1..64 |-> IF i <= BufBits THEN (v \div (2 ^ (BufBits - i))) % 2 ELSE fill] :
        v \in 0..(2 ^ BufBits - 1), fill \in {0, 1}}

\* The groups of the table the header belongs to.
PairsGroups == GroupDataParse(FileHeader(1, 0, PiecesKQvK), 5, "white").val

InitPairs ==
    /\ pc = "pairs"
    /\ overflow_checks \in BOOLEAN
    /\ \E min_symlen \in 0..MaxMinSymlen, h \in 1..MaxHeight :
       \E lowest \in [1..h -> 0..MaxLowestSym] :
            input = PairsHeader(0, 3, 15, 0, 1, min_symlen + h - 1, min_symlen, lowest,
                                <<TerminalNode(0), TerminalNode(4), PairNode(0, 1)>>)
    /\ pairs_data = None /\ search = None
    /\ table = None /\ pos = None /\ probe = None
    /\ io_error = None /\ probe_error = None
    /\ for_side = None /\ group_data = None /\ opened = None /\ dec = None

NewPairs ==
    /\ pc = "pairs"
    /\ pairs_data' = PairsDataNew(input, 0, PairsGroups)
    /\ pc' = "built"
    /\ UNCHANGED <<table, pos, probe, io_error, probe_error, overflow_checks, input,
                   for_side, group_data, search, opened, dec>>

Search ==
    /\ pc = "built"
    /\ pairs_data.tag = "Ok"
    /\ \E buf_64 \in BufSamples :
        search' = [buf_64 |-> buf_64,
                   len |-> LengthSearch(pairs_data.val.pairs.base, buf_64, 0)]
    /\ pc' = "searched"
    /\ UNCHANGED <<table, pos, probe, io_error, probe_error, overflow_checks, input,
                   for_side, group_data, pairs_data, opened, dec>>

NextPairs == NewPairs \/ Search

SpecPairs == InitPairs /\ [][NextPairs]_vars

----------------------------------------------------------------------------
(* SpecTable: Table::new on a byte range, then decompress_pairs for one     *)
(* side entry and index of the table it built.  The byte ranges are the     *)
(* complete files below and every truncation of them.                       *)

\* A sparse index entry: block (u32) and offset (u16).
SparseEntry(block, offset) == U32LE(block) \o U16LE(offset)

\* A block of 8 bytes (block size 2^3) starting with the given bytes.
Block8(bytes) == bytes \o Zeros(8 - Len(bytes))

\* KQvK, split.  Side entry 0 has two blocks of 10 and 6 values, side entry 1
\* one block of 4 values; the codes are 1 for the pair, 00 and 01 for the
\* terminals.
FileKQvK ==
    PadTo64(PadTo64(FileHeader(1, 0, PiecesKQvK)
                        \o TwoValueHeader(15, 2, 0, 4) \o TwoValueHeader(15, 1, 4, 0)
                        \o SparseEntry(0, 5) \o SparseEntry(0, 2)
                        \o U16LE(9) \o U16LE(5) \o U16LE(3))
                \o Block8(<<142, 32>>) \o Block8(<<164>>))
        \o Block8(<<192>>)

\* KvK, not split, as the format lays a symmetric table out: one pairs-data
\* header, one sparse index, one block length table, one data region.
FileKvKOneHeader ==
    PadTo64(FileHeader(0, 0, PiecesKvK) \o TwoValueHeader(9, 1, 0, 4)
                \o SparseEntry(0, 2) \o U16LE(3))
        \o Block8(<<192>>)

\* KvK, not split, with the regions of two side entries.
FileKvKTwoHeaders ==
    PadTo64(PadTo64(FileHeader(0, 0, PiecesKvK)
                        \o TwoValueHeader(9, 1, 0, 4) \o TwoValueHeader(9, 1, 4, 0)
                        \o SparseEntry(0, 2) \o SparseEntry(0, 2)
                        \o U16LE(3) \o U16LE(3))
                \o Block8(<<192>>))
        \o Block8(<<192>>)

TableFiles == {FileKQvK, FileKvKOneHeader, FileKvKTwoHeaders}

Prefixes(f) == {SubSeq(f, 1, n) : n \in 0..Len(f)}

\* The indexes probed lie within MaxWalk of the middle of the first span.
MaxWalk == 6

InitTable ==
    /\ pc = "closed"
    /\ overflow_checks \in BOOLEAN
    /\ \E f \in TableFiles : input \in Prefixes(f)
    /\ opened = None /\ dec = None
    /\ table = None /\ pos = None /\ probe = None
    /\ io_error = None /\ probe_error = None
    /\ for_side = None /\ group_data = None /\ pairs_data = None /\ search = None

Open ==
    /\ pc = "closed"
    /\ opened' = TableNew(input)
    /\ pc' = "opened"
    /\ UNCHANGED <<table, pos, probe, io_error, probe_error, overflow_checks, input,
                   for_side, group_data, pairs_data, search, dec>>

Decompress ==
    /\ pc = "opened"
    /\ opened.tag = "Ok"
    /\ \E side \in 1..Len(opened.val.files[1].sides), walk \in (-MaxWalk)..MaxWalk :
        LET d == opened.val.files[1].sides[side]
            idx == d.span \div 2 + walk
        IN  dec' = [side |-> side, idx |-> idx,
                    result |-> DecompressPairs(opened.val.data, d, idx)]
    /\ pc' = "decompressed"
    /\ UNCHANGED <<table, pos, probe, io_error, probe_error, overflow_checks, input,
                   for_side, group_data, pairs_data, search, opened>>

NextTable == Open \/ Decompress

SpecTable == InitTable /\ [][NextTable]_vars

----------------------------------------------------------------------------
(* SpecSymlen: PairsData::new on a header whose symbol tree varies: every   *)
(* tree of up to MaxSyms symbols whose child references are in range, and  *)
(* the chains of up to MaxChain symbols in which each symbol pairs the     *)
(* previous one with itself and the last one pairs it with symbol 0.       *)

\* The largest number of symbols of an enumerated tree.
MaxSyms == 3

\* The largest number of symbols of a chain.
MaxChain == 10

\* The nodes a symbol of a tree of n symbols can have.
NodeChoices(n) == {TerminalNode(0)} \cup {PairNode(l, r) : l, r \in 0..(n - 1)}

SmallTrees == UNION {[1..n -> NodeChoices(n)] : n \in 1..MaxSyms}

ChainTree(n) ==
    [i \in 1..n |-> IF i = 1 THEN TerminalNode(0)
                    ELSE IF i = n THEN PairNode(i - 2, 0)
                    ELSE PairNode(i - 2, i - 2)]

ChainTrees == {ChainTree(n) : n \in 2..MaxChain}

\* The symbol count of a header at offset 0 with two code lengths.
SymbolCount(data) == GetU16(data, 14).val

InitSymlen ==
    /\ pc = "tree"
    /\ overflow_checks \in BOOLEAN
    /\ \E nodes \in SmallTrees \cup ChainTrees :
        input = PairsHeader(0, 3, 15, 0, 1, 2, 1, <<2, 0>>, nodes)
    /\ pairs_data = None /\ search = None
    /\ table = None /\ pos = None /\ probe = None
    /\ io_error = None /\ probe_error = None
    /\ for_side = None /\ group_data = None /\ opened = None /\ dec = None

BuildSymlen ==
    /\ pc = "tree"
    /\ pairs_data' = PairsDataNew(input, 0, PairsGroups)
    /\ pc' = "symlen"
    /\ UNCHANGED <<table, pos, probe, io_error, probe_error, overflow_checks, input,
                   for_side, group_data, search, opened, dec>>

NextSymlen == BuildSymlen

SpecSymlen == InitSymlen /\ [][NextSymlen]_vars

----------------------------------------------------------------------------
(* SpecWalk: the sparse index lookup and the block-walking loops of         *)
(* decompress_pairs, on a sparse index entry followed by the block length   *)
(* table and the padding up to the data region.                             *)

\* The number of blocks (blocks_num).
NumWalkBlocks == 3

\* The largest entry of the block length table.
MaxBlockLen == 2

\* The largest offset of the sparse index entry.
MaxStartOffset == 2

\* The side entry the walk runs on: span 16, the sparse index at offset 0,
\* the block length table right after its one entry.
WalkPairs ==
    [span |-> 16, sparse_index |-> 0, block_lengths |-> 6,
     blocks_num |-> NumWalkBlocks]

InitWalk ==
    /\ pc = "walk"
    /\ overflow_checks \in BOOLEAN
    /\ \E block \in 0..NumWalkBlocks, offset \in 0..MaxStartOffset :
       \E lengths \in [1..NumWalkBlocks -> 0..MaxBlockLen] :
            input = PadTo64(SparseEntry(block, offset)
                        \o Flatten([b \in 1..NumWalkBlocks |-> U16LE(lengths[b])]))
    /\ dec = None
    /\ table = None /\ pos = None /\ probe = None
    /\ io_error = None /\ probe_error = None
    /\ for_side = None /\ group_data = None /\ pairs_data = None
    /\ search = None /\ opened = None

Walk ==
    /\ pc = "walk"
    /\ \E walk \in (-MaxWalk)..MaxWalk :
        LET idx == WalkPairs.span \div 2 + walk
        IN  dec' = [idx |-> idx, result |-> BlockWalk(input, WalkPairs, idx)]
    /\ pc' = "walked"
    /\ UNCHANGED <<table, pos, probe, io_error, probe_error, overflow_checks, input,
                   for_side, group_data, pairs_data, search, opened>>

NextWalk == Walk

SpecWalk == InitWalk /\ [][NextWalk]_vars

----------------------------------------------------------------------------
(* SpecIndex: the index computation of probe_wdl_table (from the folded     *)
(* squares on) for one side entry of a pawnless table with three leading    *)
(* pieces, over the order bytes Table::new accepts.                         *)

\* The number of squares the pieces after squares[0] stand on.
NumIndexSquares == 4

\* The folded squares of a table side: squares[0] in the triangle below the
\* a1-h8 diagonal (b1, c1, d1, c2, d2, d3), the other pieces on distinct
\* squares spread over the board, in any order.
Configurations(groups) ==
    LET others == {(13 * k) % 64 : k \in 0..(NumIndexSquares - 1)}
        n == SumSeq(groups.lens)
        triangle == {sq \in Squares : file(sq) < 4 /\ rank(sq) < file(sq)}
    IN  { c \in { <<sq>> \o rest : sq \in triangle, rest \in [1..(n - 1) -> others] } :
            Injective(c) }

InitIndex ==
    /\ pc = "index"
    /\ overflow_checks = TRUE
    /\ \E f \in { HeadersFile(1, order, PiecesKQvKR, 21) : order \in {0, 1, 16, 17, 34} }
                \cup { HeadersFile(1, order, PiecesKRRvKQ, 26) : order \in {0, 17} } :
        /\ table = TableNew(f).val
        /\ for_side \in 0..1
        /\ pos \in Configurations(table.files[1].sides[for_side + 1].groups)
    /\ probe = None
    /\ io_error = None /\ probe_error = None
    /\ input = None /\ group_data = None /\ pairs_data = None
    /\ search = None /\ opened = None /\ dec = None

ProbeIndex ==
    /\ pc = "index"
    /\ probe' = IndexOfSquares(table, table.files[1].sides[for_side + 1].groups, pos)
    /\ pc' = "indexed"
    /\ UNCHANGED <<table, pos, io_error, probe_error, overflow_checks, input,
                   for_side, group_data, pairs_data, search, opened, dec>>

NextIndex == ProbeIndex

SpecIndex == InitIndex /\ [][NextIndex]_vars

----------------------------------------------------------------------------
(* Properties of Spec. *)

WdlOfByte == <<"Loss", "BlessedLoss", "Draw", "CursedWin", "Win">>

\* The side entry probe_wdl_table selected.
ProbedSide == table.files[1].sides[fold(probe.stm, 0, 1) + 1]

\* The probe computed an index and decompressed a byte.
Accepted == pc = "probed" /\ probe.idx # -1

\* The position with every piece mirrored horizontally (file -> 7 - file).
MirrorPos(p) ==
    [p EXCEPT !.board = [sq \in {mirror_horizontal(o) : o \in DOMAIN p.board} |->
                            p.board[mirror_horizontal(sq)]]]

\* C1: the decompressed byte b in 0..4 gives the b-th of Loss, BlessedLoss,
\* Draw, CursedWin, Win, and every other byte gives a CorruptedTable error
\* as the result of the probe (no abort).
C1_ByteToWdl ==
    Accepted =>
        IF probe.byte \in 0..4
            THEN probe.result = Ok(WdlOfByte[probe.byte + 1])
        ELSE probe.result.tag = "Err"

\* C3: a probe of a position with castling rights fails with the Castling
\* error, before a side entry is selected or read.
C3_CastlingRejected ==
    (pc = "probed" /\ pos.castling) =>
        probe.result.tag = "Castling" /\ probe.read = {}

\* C4 as stated: for an accepted pawnless position, the mirrored position has
\* the same squares after the folds, the same index and the same result.
C4_MirrorSameSquaresAfterFolds ==
    Accepted =>
        LET m == ProbeWdlTable(table, MirrorPos(pos))
        IN  m.folded = probe.folded /\ m.idx = probe.idx /\ m.result = probe.result

\* C4 as amended: the mirrored position has the same leading-group squares
\* after the folds and, in every remaining group, the same set of squares
\* (the same squares once probe_wdl_table has sorted each remaining group),
\* hence the same index and the same result.
C4_MirrorSameIndex ==
    Accepted =>
        LET m == ProbeWdlTable(table, MirrorPos(pos))
            lens0 == ProbedSide.groups.lens[1]
        IN  /\ m.read = probe.read
            /\ SubSeq(m.folded, 1, lens0) = SubSeq(probe.folded, 1, lens0)
            /\ m.squares = probe.squares
            /\ m.idx = probe.idx
            /\ m.result = probe.result

\* An accepted probe with a Wdl result of a position whose two like pieces
\* are found in the other order once the position is mirrored.
C4_Witness ==
    /\ Accepted
    /\ probe.result.tag = "Ok"
    /\ ProbeWdlTable(table, MirrorPos(pos)).folded # probe.folded
    /\ file(probe.found[1]) < 4

\* C5: the folds are idempotent: the horizontal, vertical and diagonal fold
\* applied to the squares they produced change no square, for a leading group
\* of 2 or of 3.
C5_FoldsIdempotent ==
    (pc = "probed" /\ probe.folded # <<>>) =>
        Folds(probe.folded, ProbedSide.groups.lens[1]) = probe.folded

\* All three folds acted, the diagonal one from the second square on, in a
\* table whose leading group is the two kings.
C5_Witness ==
    /\ pc = "probed" /\ probe.folded # <<>>
    /\ ProbedSide.groups.lens[1] = 2
    /\ file(probe.found[1]) >= 4 /\ rank(probe.found[1]) >= 4
    /\ ~offdiag(probe.found[1])
    /\ probe.folded # VerticalFold(HorizontalFold(probe.found))

\* C13: the probe reads side entry 0 exactly when
\* (symmetric_btm \/ black_stronger) XOR (turn = white) is true and side
\* entry 1 otherwise; for a symmetric table and a position of the table's own
\* material both turns read entry 0.
C13_SideSelection ==
    pc = "probed" =>
        LET symmetric_btm == MaterialIsSymmetric(table.key) /\ pos.turn = "black"
            black_stronger == MaterialFromBoard(pos.board) # table.key
            selector == (symmetric_btm \/ black_stronger) # (pos.turn = "white")
        IN  /\ probe.read = IF selector THEN {0} ELSE {1}
            /\ (MaterialIsSymmetric(table.key) /\ ~black_stronger) => probe.read = {0}

\* A symmetric table probed black to move, with a Wdl result read from
\* entry 0.
C13_Witness ==
    /\ pc = "probed"
    /\ MaterialIsSymmetric(table.key)
    /\ pos.turn = "black"
    /\ probe.read = {0}
    /\ probe.result.tag = "Ok"

----------------------------------------------------------------------------
(* Properties of SpecIo. *)

\* C7: the conversion yields CorruptedTable exactly for the kind
\* UnexpectedEof, and Read carrying the original error for every other kind.
C7_IoErrorConversion ==
    pc = "converted" =>
        /\ probe_error.tag = "CorruptedTable" <=> io_error.kind = "UnexpectedEof"
        /\ io_error.kind # "UnexpectedEof" =>
                probe_error = [tag |-> "Read", error |-> io_error]

\* Both cases were converted: an UnexpectedEof, and another kind.
C7_Witness ==
    /\ pc = "converted"
    /\ io_error.kind = "UnexpectedEof"
    /\ probe_error.tag = "CorruptedTable"

----------------------------------------------------------------------------
(* Properties of SpecGroup. *)

\* The leading-group size times the product over the remaining groups g of
\* C(64 - (lens[0] + .. + lens[g - 1]), lens[g]).
RECURSIVE RemainingProduct(_, _)
RemainingProduct(lens, g) ==
    IF g > Len(lens) THEN 1
    ELSE binomial(64 - SumSeq(SubSeq(lens, 1, g - 1)), lens[g])
            * RemainingProduct(lens, g + 1)

\* C9: for a pawnless piece list GroupData::parse never takes the pawn-group
\* branch, whatever the order byte and the side, and factors[lens.len()] is
\* the leading-group size times the product of the remaining groups'
\* binomials.
C9_PawnlessTotal ==
    (pc = "grouped" /\ group_data.tag = "Ok") =>
        LET g == group_data.val
        IN  /\ g.pawns = 0
            /\ g.factors[Len(g.lens) + 1] =
                    LeadingSize(MaterialFromIter(g.pieces)).val
                        * RemainingProduct(g.lens, 2)

----------------------------------------------------------------------------
(* Properties of SpecPairs. *)

\* C10: when PairsData::new succeeds, the shifted base array has
\* base[h - 1] = 0 and base[i] >= base[i + 1] as 64-bit values, the shift
\* having lost no bit, and the length search stops with len <= h - 1.
C10_ShiftedBaseMonotone ==
    (pc \in {"built", "searched"} /\ pairs_data.tag = "Ok") =>
        LET d == pairs_data.val.pairs
            h == Len(d.base)
        IN  /\ d.base[h] = Zero64
            /\ \A i \in 1..(h - 1) : ~Less64(d.base[i], d.base[i + 1])
            /\ \A i \in 1..h :
                    Shr64(d.base[i], BaseShift(d.min_symlen, i - 1).val)
                        = Bits64(d.unshifted[i])
            /\ pc = "searched" => (search.len.tag = "Ok" /\ search.len.val <= h - 1)

----------------------------------------------------------------------------
(* Properties of SpecTable. *)

\* C2: a read outside the byte range, in Table::new or in a later
\* decompress_pairs, ends with a CorruptedTable error result: it neither
\* aborts nor yields a value.
C2_OutOfRangeIsCorruptedTable ==
    /\ (pc \in {"opened", "decompressed"} /\ opened.oob) => opened.tag = "Err"
    /\ (pc = "decompressed" /\ dec.result.oob) => dec.result.tag = "Err"

\* The material key of the byte range, when it holds a piece list.
KeyOf(data) == MaterialFromIter(parse_pieces(Skip(data, 6), "white").val)

\* C6: a table of a symmetric key holds 1 side entry per file entry and
\* Table::new parses no second pairs-data header for it; a table of a
\* non-symmetric key holds 2 side entries.
C6_SideEntries ==
    (pc \in {"opened", "decompressed"} /\ Len(input) >= 8) =>
        IF MaterialIsSymmetric(KeyOf(input))
            THEN /\ opened.parsed <= 1
                 /\ opened.tag = "Ok" => Len(opened.val.files[1].sides) = 1
        ELSE opened.tag = "Ok" => Len(opened.val.files[1].sides) = 2

\* The values a symbol stands for, left to right, when left is the low 12
\* bits of its node and right the high 12 bits.
RECURSIVE Expansion(_, _, _)
Expansion(data, d, sym) ==
    IF d.symlen[sym + 1] = 0 THEN <<data[d.btree + 3 * sym + 1]>>
    ELSE Expansion(data, d, Low12(data, d.btree + 3 * sym))
            \o Expansion(data, d, High12(data, d.btree + 3 * sym))

\* C8: the descent takes the low 12 bits of a node as left and the high 12
\* bits as right, and returns the offset-th value of the left-to-right
\* expansion of the symbol it starts from.
C8_DescentLeftToRight ==
    (pc = "decompressed" /\ dec.result.tag = "Ok") =>
        LET d == opened.val.files[1].sides[dec.side]
            r == dec.result.val
            w == d.btree + 3 * r.sym
        IN  /\ d.symlen[r.sym + 1] # 0 =>
                    /\ DescentLeft(input, w) = Low12(input, w)
                    /\ DescentRight(input, w) = High12(input, w)
            /\ r.byte = Expansion(input, d, r.sym)[r.sym_offset + 1]

----------------------------------------------------------------------------
(* Properties of SpecSymlen. *)

\* C11: after the symlen construction, symlen[s] = 0 exactly for the symbols
\* whose node has 0xFFF in its high 12 bits, and every other symbol has
\* symlen[s] = symlen[left] + symlen[right] + 1 as numbers, the 8-bit sum
\* not having wrapped around.
C11_SymlenExact ==
    (pc = "symlen" /\ pairs_data.tag = "Ok") =>
        LET d == pairs_data.val.pairs
        IN  \A s \in 0..(Len(d.symlen) - 1) :
                LET w == d.btree + 3 * s
                IN  /\ d.symlen[s + 1] = 0 <=> High12(input, w) = 4095
                    /\ High12(input, w) # 4095 =>
                            d.symlen[s + 1] = d.symlen[Low12(input, w) + 1]
                                                + d.symlen[High12(input, w) + 1] + 1

\* C12: for a symbol tree whose child references are in range (and too small
\* for a sum to overflow), the construction finishes and calc_symlen has been
\* entered at most once for each symbol.
C12_EnteredAtMostOnce ==
    (pc = "symlen" /\ SymbolCount(input) <= MaxSyms) =>
        /\ pairs_data.tag = "Ok"
        /\ \A s \in 1..Len(pairs_data.val.pairs.entered) :
                pairs_data.val.pairs.entered[s] <= 1

----------------------------------------------------------------------------
(* Properties of SpecWalk. *)

\* block_lengths[b] as the walk reads it.
BlockLength(b) == IndexU16(input, WalkPairs.block_lengths + b * 2).val

\* The number of values before block b: the sum of block_lengths[c] + 1 over
\* the blocks c < b (counted negatively over the blocks b..-1 when a walk
\* that wrapped below block 0 reads the entries before the table).
RECURSIVE ValuesBefore(_)
ValuesBefore(b) ==
    IF b = 0 THEN 0
    ELSE IF b > 0 THEN ValuesBefore(b - 1) + BlockLength(b - 1) + 1
    ELSE ValuesBefore(b + 1) - BlockLength(b) - 1

\* The absolute position of offset in block.
Position(block, offset) == ValuesBefore(block) + offset

\* C14: when the two block-walking loops finish, 0 <= offset <=
\* block_lengths[block] and the absolute position is the one before the
\* walk; when that position lies inside the stream the first loop does not
\* take block below 0 and the second does not take it to blocks_num.
C14_BlockWalk ==
    (pc = "walked" /\ dec.result.tag = "Ok") =>
        LET r == dec.result.val
            start == Position(r.first_block, r.first_offset)
        IN  /\ 0 <= r.offset /\ r.offset <= BlockLength(r.block)
            /\ Position(r.block, r.offset) = start
            /\ (0 <= start /\ start < ValuesBefore(WalkPairs.blocks_num)) =>
                    /\ 0 <= r.back_block
                    /\ r.block < WalkPairs.blocks_num

\* A walk inside the stream whose first loop went back over at least one
\* block and ended in block 0.
C14_Witness ==
    /\ pc = "walked" /\ dec.result.tag = "Ok"
    /\ dec.result.val.back_block < dec.result.val.first_block
    /\ dec.result.val.block = 0
    /\ dec.result.val.first_offset < 0
    /\ Position(dec.result.val.block, dec.result.val.offset) >= 0


----------------------------------------------------------------------------
(* Properties of SpecIndex. *)

\* C15: for every pawnless configuration with at least three unique pieces
\* whose squares[0] is off the diagonal, the index is smaller than
\* factors[lens.len()] of the side, and a configuration whose canonical squares
\* differ (the leading triple in order, one set of squares per remaining
\* group) gets a different index.
C15_IndexBoundedInjective ==
    (pc = "indexed" /\ probe.tag = "Ok") =>
        LET groups == table.files[1].sides[for_side + 1].groups
            canonical(c) == IndexOfSquares(table, groups, c).val.squares
        IN  /\ probe.val.idx < groups.factors[Len(groups.lens) + 1]
            /\ \A other \in Configurations(groups) :
                    canonical(other) # probe.val.squares
                        => IndexOfSquares(table, groups, other).val.idx # probe.val.idx

=============================================================================
